---- MODULE Spec2Model ----
(***************************************************************************)
(* Complaint lifecycle and routing engine of ccms-backend                  *)
(* (src/controllers/complaintController.js) with the performance report    *)
(* and the removal of institutions of the admin controller                 *)
(* (src/unnamed/part_000).                                                 *)
(*                                                                         *)
(* Every request handler is an async function: it runs synchronously up to *)
(* its first database access and then proceeds from one awaited call       *)
(* (save, sendNotification) to the next.  A handler is modelled as a       *)
(* request slot req[r] whose pc names the awaited call it is about to      *)
(* make; the step that starts a handler runs its synchronous prefix        *)
(* together with its first reads.  A save or a notification may throw;     *)
(* the throw is an input of the step.  Reads are assumed not to throw.     *)
(* A slot records the request inputs that the handler has read by the time *)
(* it answers: a request refused by an early check leaves the rest out.    *)
(* Time is counted in ticks of the clock `now`; one day is Day ticks.      *)
(***************************************************************************)
EXTENDS Integers, Sequences, FiniteSets, TLC

\* ------------------------------------------------------------------ bounds
MaxComplaints == 1
MaxRecords == 2
MaxTime == 1
MaxRequests == 3
MaxReported == 2
MaxOverlap == 2

\* ---------------------------------------------------------- optional values
None == {}
Some(x) == {x}
IsSome(o) == o # {}
Val(o) == CHOOSE x \in o : TRUE

\* ------------------------------------------------------- the stored actors
\* req.user as the auth middleware supplies it: _id, role, province, district
Institutions == {"i1", "i2"}
Citizens == {"z1"}
Users == Institutions \cup Citizens

Role(u) == IF u \in Institutions THEN "institution" ELSE "citizen"

Province(u) == "P1"

District(u) == IF u = "i1" THEN "D1" ELSE "D2"

\* DistrictDepartment documents; "dX" is an id no document has
Departments == {"dA", "dB"}
DepartmentIds == Departments \cup {"dX"}

\* both departments serve district D1
DepartmentDistrict(d) == "D1"

\* request inputs; the category only enters through calculateResolutionDeadline
Categories == {"WATER"}
\* the categories of the deadline table, one outside it and one in another case
AllCategories == {"WATER", "ELECTRICITY", "PUBLIC_SAFETY", "ROADS", "SANITATION",
                  "LAND", "water"}
Places == {<<"P1", "D1">>, <<"P1", "D3">>, <<"P2", "D1">>}
Statuses == {"PENDING", "IN_PROGRESS", "RESOLVED"}
Notes == {"note"}
\* who may ask for a history: the users and a citizen who owns no complaint
Viewers == Users \cup {"z2"}
Reqs == {1, 2}

\* ------------------------------------------------------------------- state
VARIABLES
  now,                \* the clock, new Date()
  complaints,         \* the Complaint collection, _id = index
  forwardingRecords,  \* the ForwardingRecord collection, in insertion order
  req,                \* the request slots
  conc,               \* how many requests the run lets be in flight at once
  started,            \* how many requests have been received
  removed             \* the institutions whose User document has been removed

vars == <<now, complaints, forwardingRecords, req, conc, started, removed>>

\* the institution documents of the User collection
StoredInstitutions == Institutions \ removed

\* ------------------------------------------------------------ pure helpers
Day == 1

\* faulty variant of DeadlineDays: safety issues fall under the urgent services
DeadlineDaysSafetyAsUrgent(category) ==
  CASE category \in {"WATER", "ELECTRICITY", "PUBLIC_SAFETY"} -> 3
    [] category \in {"ROADS", "SANITATION"} -> 7
    [] OTHER -> 14

\* calculateResolutionDeadline: the category's offset in days
DeadlineDays(category) ==
  CASE category \in {"WATER", "ELECTRICITY"} -> 3
    [] category = "PUBLIC_SAFETY" -> 2
    [] category \in {"ROADS", "SANITATION"} -> 7
    [] OTHER -> 14

calculateResolutionDeadline(category, t) == t + DeadlineDays(category) * Day

\* faulty variant of findAppropriateInstitution: the second query leaves the
\* province out
findAppropriateInstitutionAnywhere(category, province, district) ==
  LET exact == {i \in StoredInstitutions : Province(i) = province /\ District(i) = district}
  IN IF exact # {} THEN exact ELSE StoredInstitutions

\* findAppropriateInstitution: the documents its two findOne calls may return
\* (findOne without a sort returns any one matching document); {} is null
findAppropriateInstitution(category, province, district) ==
  LET exact == {i \in StoredInstitutions : Province(i) = province /\ District(i) = district}
      inProvince == {i \in StoredInstitutions : Province(i) = province}
  IN IF exact # {} THEN exact ELSE inProvince

\* the fields the Complaint schema fills in when the constructor leaves them out
ComplaintDefaults(t) ==
  [status |-> "PENDING", submissionDate |-> t, resolutionDate |-> None]

\* faulty variant of NewComplaint: assignedDepartment is left out
NewComplaintNoDepartment(category, province, district, citizen, institution, t) ==
  [category |-> category, province |-> province, district |-> district,
   citizenId |-> citizen, institutionId |-> institution,
   status |-> ComplaintDefaults(t).status,
   submissionDate |-> ComplaintDefaults(t).submissionDate,
   resolutionDeadline |-> calculateResolutionDeadline(category, t),
   resolutionDate |-> ComplaintDefaults(t).resolutionDate,
   assignedDepartment |-> ""]

\* new Complaint({...}) as submitComplaint builds it
NewComplaint(category, province, district, citizen, institution, t) ==
  [category |-> category, province |-> province, district |-> district,
   citizenId |-> citizen, institutionId |-> institution,
   status |-> ComplaintDefaults(t).status,
   submissionDate |-> ComplaintDefaults(t).submissionDate,
   resolutionDeadline |-> calculateResolutionDeadline(category, t),
   resolutionDate |-> ComplaintDefaults(t).resolutionDate,
   assignedDepartment |-> institution]

NoDoc ==
  [category |-> "", province |-> "", district |-> "", citizenId |-> "",
   institutionId |-> "", status |-> "", submissionDate |-> 0,
   resolutionDeadline |-> 0, resolutionDate |-> None, assignedDepartment |-> ""]

\* document.save(): the paths whose value differs from the loaded one are
\* written over the stored document, the others keep their stored value
SaveDoc(stored, orig, doc) ==
  [f \in DOMAIN stored |-> IF doc[f] # orig[f] THEN doc[f] ELSE stored[f]]

\* the deadlines a request may carry: none, or a timestamp around the clock
DeadlineInputs(t) == {None} \cup {Some(d) : d \in (t - 1)..(t + 1)}

\* faulty variant of InvalidDeadline: only a missing deadline is refused
InvalidDeadlineMissingOnly(newDeadline, t) == newDeadline = None

\* updateComplaintDeadline's validation: !newDeadline || new Date(newDeadline) < new Date()
InvalidDeadline(newDeadline, t) == newDeadline = None \/ Val(newDeadline) < t

\* faulty variant of OwnsComplaint: the ownership check is left out
OwnsComplaintUnchecked(complaint, actor) == TRUE

\* complaint.institutionId.toString() !== req.user._id.toString(), negated
OwnsComplaint(complaint, actor) == complaint.institutionId = actor

\* the in-memory changes updateComplaintStatus makes to the loaded document
ApplyStatus(doc, status, resolutionDeadline, t) ==
  [doc EXCEPT !.status = status,
              !.resolutionDate = IF status = "RESOLVED" THEN Some(t) ELSE @,
              !.resolutionDeadline = IF IsSome(resolutionDeadline)
                                       THEN Val(resolutionDeadline) ELSE @]

\* faulty variant of ApplyForward: the complaint is handed over, the department
\* taking the institution's place as well
ApplyForwardHandingOver(doc, departmentId) ==
  [doc EXCEPT !.assignedDepartment = departmentId, !.institutionId = departmentId,
              !.status = "IN_PROGRESS"]

\* faulty variant of ApplyForward: a resolved complaint keeps its status
ApplyForwardKeepResolved(doc, departmentId) ==
  [doc EXCEPT !.assignedDepartment = departmentId,
              !.status = IF @ = "RESOLVED" THEN @ ELSE "IN_PROGRESS"]

\* the in-memory changes forwardComplaint makes to the loaded document
ApplyForward(doc, departmentId) ==
  [doc EXCEPT !.assignedDepartment = departmentId, !.status = "IN_PROGRESS"]

\* the timestamp the ForwardingRecord schema fills in
ForwardedAtDefault(t) == t

\* new ForwardingRecord({...}) as forwardComplaint builds it
NewForwardingRecord(complaintId, actor, departmentId, forwardingNote, t) ==
  [complaintId |-> complaintId, fromInstitutionId |-> actor,
   toDepartmentId |-> departmentId, forwardingNote |-> forwardingNote,
   forwardedAt |-> ForwardedAtDefault(t)]

\* faulty variant of InsertRecord: one record per complaint, the new one
\* taking the place of an earlier one
InsertRecordReplacing(records, record) ==
  Append(SelectSeq(records, LAMBDA old : old.complaintId # record.complaintId), record)

\* forwardingRecord.save() of a new document: one more document in the collection
InsertRecord(records, record) == Append(records, record)

IdleReq ==
  [op |-> "none", pc |-> "idle", actor |-> "", cid |-> 0,
   status |-> "", deadline |-> None, dept |-> "", note |-> "",
   doc |-> NoDoc, orig |-> NoDoc,
   notified |-> {}, notifErrors |-> {}, saved |-> FALSE,
   recId |-> 0, recBase |-> 0, code |-> 0, msg |-> "",
   place |-> << >>, sentFlag |-> TRUE, result |-> << >>,
   timeframe |-> "", span |-> 0, read |-> << >>, target |-> ""]

Exists(c) == c \in 1..Len(complaints)

Busy == {r \in Reqs : req[r].pc # "idle"}

\* a request is taken by the lowest free slot, while fewer than conc run
CanStart(r) ==
  /\ req[r].pc = "idle"
  /\ Cardinality(Busy) < conc
  /\ started < MaxRequests
  /\ \A q \in Reqs : q < r => req[q].pc # "idle"

Respond(q, code, msg) == [q EXCEPT !.pc = "respond", !.code = code, !.msg = msg]

\* faulty variant of TryNotify: a throw of sendNotification is not caught and
\* reaches the handler's outer catch
TryNotifyUncaught(next, kind, sent) ==
  IF sent
    THEN [next EXCEPT !.notified = @ \cup {kind}]
    ELSE Respond([next EXCEPT !.notified = @ \cup {kind}, !.notifErrors = @ \cup {kind}],
                 500, "Error")

\* try { await sendNotification(kind, ...) } catch { remember the error }: the
\* handler goes on as `next` whether the notification was sent or threw
TryNotify(next, kind, sent) ==
  [next EXCEPT !.notified = @ \cup {kind},
               !.notifErrors = IF sent THEN @ ELSE @ \cup {kind}]

\* the notification flag of a success response: notificationSent (submit),
\* notificationStatus.success (status), emailSent (forward, the literal true)
NotificationFlag(op, notifErrors) ==
  IF op = "forward" THEN TRUE ELSE notifErrors = {}

Init ==
  /\ now = 0
  /\ complaints = << >>
  /\ forwardingRecords = << >>
  /\ req = [r \in Reqs |-> IdleReq]
  /\ conc = 1
  /\ started = 0
  /\ removed = {}

\* time passes
Tick ==
  /\ now < MaxTime
  /\ now' = now + 1
  /\ UNCHANGED <<complaints, forwardingRecords, req, conc, started, removed>>

\* the response has been sent: the slot is free again
Finish(r) ==
  /\ req[r].pc = "respond"
  /\ req' = [req EXCEPT ![r] = IdleReq]
  /\ UNCHANGED <<now, complaints, forwardingRecords, conc, started, removed>>

\* ---------------------------------------------------------- submitComplaint
\* the handler up to complaint.save(), for a request whose category is one of
\* `categories`
SubmitStartWith(r, categories) ==
  /\ CanStart(r)
  /\ Len(complaints) + Cardinality({q \in Reqs : req[q].op = "submit" /\ req[q].pc = "save"})
       < MaxComplaints
  /\ \E actor \in Users \ removed, valid \in BOOLEAN, category \in categories, place \in Places :
       LET base == [IdleReq EXCEPT !.op = "submit", !.actor = actor]
           found == findAppropriateInstitution(category, place[1], place[2])
       IN IF ~valid
            THEN req' = [req EXCEPT ![r] = Respond(base, 400, "validation")]
          ELSE IF Role(actor) # "citizen"
            THEN req' = [req EXCEPT ![r] =
                   Respond(base, 403, "Only citizens can submit complaints")]
          ELSE IF found = {}
            THEN req' = [req EXCEPT ![r] =
                   Respond([base EXCEPT !.place = place], 404,
                           "No appropriate institution found to handle this complaint")]
          ELSE \E institution \in found :
                 req' = [req EXCEPT ![r] =
                   [base EXCEPT !.pc = "save", !.place = place,
                      !.doc = NewComplaint(category, place[1], place[2], actor, institution, now)]]
  /\ started' = started + 1
  /\ UNCHANGED <<now, complaints, forwardingRecords, conc, removed>>

\* a submission of the lifecycle runs
SubmitStart(r) == SubmitStartWith(r, Categories)

\* a submission of the intake runs: any category
SubmitAnyCategory(r) == SubmitStartWith(r, AllCategories)

SubmitSave(r) ==
  /\ req[r].op = "submit" /\ req[r].pc = "save"
  /\ \E ok \in BOOLEAN :
       IF ok
         THEN /\ complaints' = Append(complaints, req[r].doc)
              /\ req' = [req EXCEPT ![r].pc = "notify", ![r].saved = TRUE,
                                    ![r].cid = Len(complaints) + 1]
         ELSE /\ req' = [req EXCEPT ![r] = Respond(req[r], 500, "Error submitting complaint")]
              /\ UNCHANGED complaints
  /\ UNCHANGED <<now, forwardingRecords, conc, started, removed>>

SubmitNotify(r) ==
  /\ req[r].op = "submit" /\ req[r].pc = "notify"
  /\ \E sent \in BOOLEAN :
       LET q == TryNotify(Respond(req[r], 201, "Complaint submitted successfully"),
                          "SUBMITTED", sent)
       IN req' = [req EXCEPT ![r] =
                    [q EXCEPT !.sentFlag = NotificationFlag("submit", q.notifErrors)]]
  /\ UNCHANGED <<now, complaints, forwardingRecords, conc, started, removed>>

\* Complaint.findOne({ _id: id, institutionId: req.user._id }) finds a document
FindOwned(cid, actor) == Exists(cid) /\ complaints[cid].institutionId = actor

\* -------------------------------------------------- updateComplaintDeadline
\* the handler up to complaint.save(), for a request of one of `actors`
DeadlineStartBy(r, actors) ==
  /\ CanStart(r)
  /\ \E actor \in actors, cid \in 1..MaxComplaints, newDeadline \in DeadlineInputs(now) :
       LET base == [IdleReq EXCEPT !.op = "deadline", !.actor = actor, !.cid = cid,
                                   !.deadline = newDeadline]
       IN IF InvalidDeadline(newDeadline, now)
            THEN req' = [req EXCEPT ![r] =
                   Respond(base, 400, "Invalid deadline. Deadline must be a future date")]
          ELSE IF ~FindOwned(cid, actor)
            THEN req' = [req EXCEPT ![r] =
                   Respond(base, 404, "Complaint not found or you do not have permission to update it")]
          ELSE req' = [req EXCEPT ![r] =
                   [base EXCEPT !.pc = "save", !.orig = complaints[cid],
                      !.doc = [complaints[cid] EXCEPT !.resolutionDeadline = Val(newDeadline)]]]
  /\ started' = started + 1
  /\ UNCHANGED <<now, complaints, forwardingRecords, conc, removed>>

DeadlineStart(r) == DeadlineStartBy(r, Users)

DeadlineSave(r) ==
  /\ req[r].op = "deadline" /\ req[r].pc = "save"
  /\ \E ok \in BOOLEAN :
       IF ok
         THEN /\ complaints' = [complaints EXCEPT ![req[r].cid] =
                                  SaveDoc(@, req[r].orig, req[r].doc)]
              /\ req' = [req EXCEPT ![r] =
                   [Respond(req[r], 200, "Complaint deadline updated successfully")
                      EXCEPT !.saved = TRUE]]
         ELSE /\ req' = [req EXCEPT ![r] =
                   Respond(req[r], 500, "Error updating complaint deadline")]
              /\ UNCHANGED complaints
  /\ UNCHANGED <<now, forwardingRecords, conc, started, removed>>

\* ---------------------------------------------------- updateComplaintStatus
\* the awaited call that follows the in-memory changes
StatusNextPc(status, resolutionDeadline) ==
  IF status = "RESOLVED" THEN "notifyResolved"
  ELSE IF IsSome(resolutionDeadline) THEN "notifyDeadline"
  ELSE "save"

\* the handler up to its first awaited call, for a request of one of `actors`
StatusStartBy(r, actors) ==
  /\ CanStart(r)
  /\ \E actor \in actors, cid \in 1..MaxComplaints, status \in Statuses,
        resolutionDeadline \in DeadlineInputs(now) :
       LET base == [IdleReq EXCEPT !.op = "status", !.actor = actor, !.cid = cid]
       IN IF Role(actor) # "institution"
            THEN req' = [req EXCEPT ![r] =
                   Respond(base, 403, "Only institutions can update complaint status")]
          ELSE IF ~Exists(cid)
            THEN req' = [req EXCEPT ![r] = Respond(base, 404, "Complaint not found")]
          ELSE IF ~OwnsComplaint(complaints[cid], actor)
            THEN req' = [req EXCEPT ![r] =
                   Respond(base, 403, "Not authorized to update this complaint")]
          ELSE req' = [req EXCEPT ![r] =
                   [base EXCEPT !.pc = StatusNextPc(status, resolutionDeadline),
                      !.status = status, !.deadline = resolutionDeadline,
                      !.orig = complaints[cid],
                      !.doc = ApplyStatus(complaints[cid], status, resolutionDeadline, now)]]
  /\ started' = started + 1
  /\ UNCHANGED <<now, complaints, forwardingRecords, conc, removed>>

StatusStart(r) == StatusStartBy(r, Users)

StatusNotifyResolved(r) ==
  /\ req[r].op = "status" /\ req[r].pc = "notifyResolved"
  /\ \E sent \in BOOLEAN :
       req' = [req EXCEPT ![r] =
         TryNotify([req[r] EXCEPT !.pc = IF IsSome(req[r].deadline)
                                           THEN "notifyDeadline" ELSE "save"],
                   "RESOLVED", sent)]
  /\ UNCHANGED <<now, complaints, forwardingRecords, conc, started, removed>>

StatusNotifyDeadline(r) ==
  /\ req[r].op = "status" /\ req[r].pc = "notifyDeadline"
  /\ \E sent \in BOOLEAN :
       req' = [req EXCEPT ![r] =
         TryNotify([req[r] EXCEPT !.pc = "save"], "DEADLINE_SET", sent)]
  /\ UNCHANGED <<now, complaints, forwardingRecords, conc, started, removed>>

StatusSave(r) ==
  /\ req[r].op = "status" /\ req[r].pc = "save"
  /\ \E ok \in BOOLEAN :
       IF ok
         THEN /\ complaints' = [complaints EXCEPT ![req[r].cid] =
                                  SaveDoc(@, req[r].orig, req[r].doc)]
              /\ req' = [req EXCEPT ![r] =
                   [Respond(req[r], 200, "Complaint updated successfully")
                      EXCEPT !.saved = TRUE,
                             !.sentFlag = NotificationFlag("status", req[r].notifErrors)]]
         ELSE /\ req' = [req EXCEPT ![r] = Respond(req[r], 500, "Error updating complaint")]
              /\ UNCHANGED complaints
  /\ UNCHANGED <<now, forwardingRecords, conc, started, removed>>

\* --------------------------------------------------------- forwardComplaint
\* faulty variant of ForwardCheck: the district comparison is left out
ForwardCheckNoDistrict(cid, actor, departmentId) ==
  IF ~FindOwned(cid, actor)
    THEN [code |-> 404, msg |-> "Complaint not found or you do not have permission to forward it"]
  ELSE IF departmentId \notin Departments
    THEN [code |-> 404, msg |-> "District department not found"]
  ELSE [code |-> 0, msg |-> ""]

\* faulty variant of ForwardCheck: the department's district is compared with
\* the acting institution's district, not with the complaint's
ForwardCheckDistrictOfActor(cid, actor, departmentId) ==
  IF ~FindOwned(cid, actor)
    THEN [code |-> 404, msg |-> "Complaint not found or you do not have permission to forward it"]
  ELSE IF departmentId \notin Departments
    THEN [code |-> 404, msg |-> "District department not found"]
  ELSE IF DepartmentDistrict(departmentId) # District(actor)
    THEN [code |-> 400, msg |-> "Department must be in the same district as the complaint"]
  ELSE [code |-> 0, msg |-> ""]

\* faulty variant of ForwardCheck: an unknown complaint and a complaint of
\* another institution get different answers
ForwardCheckLeaking(cid, actor, departmentId) ==
  IF ~Exists(cid)
    THEN [code |-> 404, msg |-> "Complaint not found"]
  ELSE IF complaints[cid].institutionId # actor
    THEN [code |-> 403, msg |-> "Not authorized to forward this complaint"]
  ELSE IF departmentId \notin Departments
    THEN [code |-> 404, msg |-> "District department not found"]
  ELSE IF DepartmentDistrict(departmentId) # complaints[cid].district
    THEN [code |-> 400, msg |-> "Department must be in the same district as the complaint"]
  ELSE [code |-> 0, msg |-> ""]

\* the precondition checks, in the handler's order: the response of the first
\* one that fails, code 0 when all pass
ForwardCheck(cid, actor, departmentId) ==
  IF ~FindOwned(cid, actor)
    THEN [code |-> 404, msg |-> "Complaint not found or you do not have permission to forward it"]
  ELSE IF departmentId \notin Departments
    THEN [code |-> 404, msg |-> "District department not found"]
  ELSE IF DepartmentDistrict(departmentId) # complaints[cid].district
    THEN [code |-> 400, msg |-> "Department must be in the same district as the complaint"]
  ELSE [code |-> 0, msg |-> ""]

\* the handler up to forwardingRecord.save(), for a request of one of `actors`
ForwardStartBy(r, actors) ==
  /\ CanStart(r)
  /\ Len(forwardingRecords)
       + Cardinality({q \in Reqs : req[q].op = "forward" /\ req[q].pc = "saveRecord"})
       < MaxRecords
  /\ \E actor \in actors, valid \in BOOLEAN, cid \in 1..MaxComplaints,
        departmentId \in DepartmentIds, forwardingNote \in Notes :
       LET base == [IdleReq EXCEPT !.op = "forward", !.actor = actor, !.cid = cid,
                                   !.dept = departmentId, !.note = forwardingNote,
                                   !.recBase = Len(forwardingRecords)]
           check == ForwardCheck(cid, actor, departmentId)
       IN IF ~valid
            THEN req' = [req EXCEPT ![r] = Respond(base, 400, "validation")]
          ELSE IF check.code # 0
            THEN req' = [req EXCEPT ![r] = Respond(base, check.code, check.msg)]
          ELSE req' = [req EXCEPT ![r] =
                   [base EXCEPT !.pc = "saveRecord", !.orig = complaints[cid],
                                !.doc = complaints[cid]]]
  /\ started' = started + 1
  /\ UNCHANGED <<now, complaints, forwardingRecords, conc, removed>>

ForwardStart(r) == ForwardStartBy(r, Users)

ForwardSaveRecord(r) ==
  /\ req[r].op = "forward" /\ req[r].pc = "saveRecord"
  /\ \E ok \in BOOLEAN :
       IF ok
         THEN /\ forwardingRecords' = InsertRecord(forwardingRecords,
                   NewForwardingRecord(req[r].cid, req[r].actor, req[r].dept, req[r].note, now))
              /\ req' = [req EXCEPT ![r].pc = "saveComplaint",
                                    ![r].recId = Len(forwardingRecords) + 1,
                                    ![r].doc = ApplyForward(@, req[r].dept)]
         ELSE /\ req' = [req EXCEPT ![r] = Respond(req[r], 500, "Error forwarding complaint")]
              /\ UNCHANGED forwardingRecords
  /\ UNCHANGED <<now, complaints, conc, started, removed>>

ForwardSaveComplaint(r) ==
  /\ req[r].op = "forward" /\ req[r].pc = "saveComplaint"
  /\ \E ok \in BOOLEAN :
       IF ok
         THEN /\ complaints' = [complaints EXCEPT ![req[r].cid] =
                                  SaveDoc(@, req[r].orig, req[r].doc)]
              /\ req' = [req EXCEPT ![r].pc = "notify", ![r].saved = TRUE]
         ELSE /\ req' = [req EXCEPT ![r] = Respond(req[r], 500, "Error forwarding complaint")]
              /\ UNCHANGED complaints
  /\ UNCHANGED <<now, forwardingRecords, conc, started, removed>>

\* a throw of sendNotification is caught and logged; emailSent is true anyway
ForwardNotify(r) ==
  /\ req[r].op = "forward" /\ req[r].pc = "notify"
  /\ \E sent \in BOOLEAN :
       LET q == TryNotify(Respond(req[r], 200, "Complaint forwarded successfully"),
                          "COMPLAINT_FORWARDED", sent)
       IN req' = [req EXCEPT ![r] =
                    [q EXCEPT !.sentFlag = NotificationFlag("forward", q.notifErrors)]]
  /\ UNCHANGED <<now, complaints, forwardingRecords, conc, started, removed>>

\* ----------------------------------------------------- getForwardingHistory
\* Complaint.findOne({ _id, $or: [{institutionId: user}, {citizenId: user}] })
FindAccessible(cid, actor) ==
  /\ Exists(cid)
  /\ \/ complaints[cid].institutionId = actor
     \/ complaints[cid].citizenId = actor

\* faulty variant of HistoryResults: the sort is left out and the records come
\* in the order of their insertion
HistoryResultsUnsorted(cid) ==
  {SelectSeq(forwardingRecords, LAMBDA rec : rec.complaintId = cid)}

\* ForwardingRecord.find({ complaintId }).sort({ forwardedAt: -1 }): the orders
\* the sort may return, records of equal forwardedAt in either order
HistoryResults(cid) ==
  LET ids == {i \in DOMAIN forwardingRecords : forwardingRecords[i].complaintId = cid}
      n == Cardinality(ids)
      orders == {o \in [1..n -> ids] :
                   /\ \A j, k \in 1..n : j # k => o[j] # o[k]
                   /\ \A j, k \in 1..n :
                        j < k => forwardingRecords[o[j]].forwardedAt
                                   >= forwardingRecords[o[k]].forwardedAt}
  IN {[j \in 1..n |-> forwardingRecords[o[j]]] : o \in orders}

HistoryStart(r) ==
  /\ CanStart(r)
  /\ \E actor \in Viewers, cid \in 1..MaxComplaints :
       LET base == [IdleReq EXCEPT !.op = "history", !.actor = actor, !.cid = cid]
       IN IF ~FindAccessible(cid, actor)
            THEN req' = [req EXCEPT ![r] =
                   Respond(base, 404, "Complaint not found or you do not have permission to view it")]
          ELSE \E history \in HistoryResults(cid) :
                 req' = [req EXCEPT ![r] = [Respond(base, 200, "") EXCEPT !.result = history]]
  /\ started' = started + 1
  /\ UNCHANGED <<now, complaints, forwardingRecords, conc, removed>>

\* ----------------------------------------------------------- getPerformance
\* what the database holds, and the clock, at the moment a request reads
Stored == [complaints |-> complaints, forwardingRecords |-> forwardingRecords,
           removed |-> removed, now |-> now]

\* req.query.timeframe; "none" is a request without one
Timeframes == {"week", "month", "year", "none"}

\* how many days setDate(-7), setMonth(-1) and setFullYear(-1) go back, which
\* for a month and a year depends on the calendar date of the run
Spans(timeframe) ==
  CASE timeframe = "week" -> {7}
    [] timeframe = "month" -> 28..31
    [] timeframe = "year" -> {365, 366}
    [] OTHER -> {0}

\* dateFilter: Some(b) is { $gte: b }, None is the {} of the default case
DateFilter(timeframe, span, t) ==
  IF timeframe \in {"week", "month", "year"} THEN Some(t - span * Day) ELSE None

\* $match: { submissionDate: dateFilter }; the condition {} is equality with the
\* empty document, which no date satisfies
Matches(dateFilter, submissionDate) ==
  IsSome(dateFilter) /\ submissionDate >= Val(dateFilter)

\* the $group stage's key set and the complaints of one group
Matched(dateFilter) ==
  {c \in 1..Len(complaints) : Matches(dateFilter, complaints[c].submissionDate)}

GroupOf(i, dateFilter) ==
  {c \in Matched(dateFilter) : complaints[c].institutionId = i}

\* faulty variant of ResolvedOnTime: a resolution at the deadline itself is late
ResolvedOnTimeStrict(c) ==
  /\ c.status = "RESOLVED"
  /\ IsSome(c.resolutionDate) => Val(c.resolutionDate) < c.resolutionDeadline

\* $and: [{ $eq: ['$status', 'RESOLVED'] }, { $lte: ['$resolutionDate',
\* '$resolutionDeadline'] }]; a missing date compares below every date
ResolvedOnTime(c) ==
  /\ c.status = "RESOLVED"
  /\ IsSome(c.resolutionDate) => Val(c.resolutionDate) <= c.resolutionDeadline

\* x / y * 100, kept as the fraction num / den
Rate(x, y) == [num |-> 100 * x, den |-> y]

RateGE(a, b) == a.num * b.den >= b.num * a.den

RateEq(a, b) == a.num * b.den = b.num * a.den

\* faulty variant of Max: the divisor without its floor
MaxOfFirst(a, b) == a

\* $max: [a, b]
Max(a, b) == IF a >= b THEN a ELSE b

\* the days from submission to resolution, summed over a set of complaints
RECURSIVE ResolutionDays(_)
ResolutionDays(cs) ==
  IF cs = {} THEN 0
  ELSE LET c == CHOOSE x \in cs : TRUE
       IN (IF IsSome(complaints[c].resolutionDate)
             THEN Val(complaints[c].resolutionDate) - complaints[c].submissionDate
             ELSE 0) \div Day
          + ResolutionDays(cs \ {c})

\* $round: [x / y, 1] in tenths, halves going to the even tenth
RoundTenths(x, y) ==
  LET q == (10 * x) \div y
      rem == (10 * x) % y
  IN IF 2 * rem > y THEN q + 1
     ELSE IF 2 * rem < y THEN q
     ELSE IF q % 2 = 0 THEN q ELSE q + 1

\* faulty variant of SystemStats: the totals count the first entry only
SystemStatsOfFirst(performance) ==
  LET totalComplaints == IF performance = << >> THEN 0 ELSE performance[1].totalComplaints
      totalResolved == IF performance = << >> THEN 0 ELSE performance[1].resolvedComplaints
      totalResolvedOnTime == IF performance = << >> THEN 0 ELSE performance[1].resolvedOnTime
  IN [totalComplaints |-> totalComplaints,
      totalResolved |-> totalResolved,
      totalResolvedOnTime |-> totalResolvedOnTime,
      systemResolutionRate |-> IF totalComplaints # 0
                                 THEN Rate(totalResolved, totalComplaints) ELSE Rate(0, 1),
      systemOnTimeRate |-> IF totalResolved # 0
                             THEN Rate(totalResolvedOnTime, totalResolved) ELSE Rate(0, 1)]

\* performance.reduce((sum, p) => sum + p[field], 0)
RECURSIVE SumField(_, _)
SumField(performance, field) ==
  IF performance = << >> THEN 0
  ELSE Head(performance)[field] + SumField(Tail(performance), field)

\* one group after $group, $lookup, $unwind and $project
PerformanceEntry(i, dateFilter) ==
  LET group == GroupOf(i, dateFilter)
      resolved == {c \in group : complaints[c].status = "RESOLVED"}
      onTime == {c \in group : ResolvedOnTime(complaints[c])}
  IN [institution |-> i, district |-> District(i), province |-> Province(i),
      totalComplaints |-> Cardinality(group),
      resolvedComplaints |-> Cardinality(resolved),
      resolvedOnTime |-> Cardinality(onTime),
      averageResolutionTime |->
        IF resolved = {} THEN None
        ELSE Some(RoundTenths(ResolutionDays(resolved), Cardinality(resolved))),
      resolutionRate |-> Rate(Cardinality(resolved), Cardinality(group)),
      onTimeResolutionRate |-> Rate(Cardinality(onTime), Max(Cardinality(resolved), 1))]

\* the pipeline's results: one entry for each institutionId of a matched
\* complaint that $lookup finds among the users, in an order that
\* $sort: { onTimeResolutionRate: -1 } may give (equal rates in either order)
PerformanceResults(dateFilter) ==
  LET keys == {complaints[c].institutionId : c \in Matched(dateFilter)} \cap StoredInstitutions
      n == Cardinality(keys)
      orders == {o \in [1..n -> keys] :
                   /\ \A j, k \in 1..n : j # k => o[j] # o[k]
                   /\ \A j, k \in 1..n :
                        j < k => RateGE(PerformanceEntry(o[j], dateFilter).onTimeResolutionRate,
                                        PerformanceEntry(o[k], dateFilter).onTimeResolutionRate)}
  IN {[j \in 1..n |-> PerformanceEntry(o[j], dateFilter)] : o \in orders}

\* systemStats
SystemStats(performance) ==
  LET totalComplaints == SumField(performance, "totalComplaints")
      totalResolved == SumField(performance, "resolvedComplaints")
      totalResolvedOnTime == SumField(performance, "resolvedOnTime")
  IN [totalComplaints |-> totalComplaints,
      totalResolved |-> totalResolved,
      totalResolvedOnTime |-> totalResolvedOnTime,
      systemResolutionRate |-> IF totalComplaints # 0
                                 THEN Rate(totalResolved, totalComplaints) ELSE Rate(0, 1),
      systemOnTimeRate |-> IF totalResolved # 0
                             THEN Rate(totalResolvedOnTime, totalResolved) ELSE Rate(0, 1)]

\* the body of the response
PerformanceReport(timeframe, performance) ==
  [timeframe |-> IF timeframe = "none" THEN "all-time" ELSE timeframe,
   systemStats |-> SystemStats(performance),
   institutionPerformance |-> performance]

\* faulty variant of PerformanceStartWith: the run writes to the complaints it
\* has counted, taking those still PENDING into IN_PROGRESS
PerformanceStartMarking(r, timeframes) ==
  /\ CanStart(r)
  /\ \E timeframe \in timeframes :
       \E span \in Spans(timeframe) :
         \E performance \in PerformanceResults(DateFilter(timeframe, span, now)) :
           /\ req' = [req EXCEPT ![r] =
                [Respond([IdleReq EXCEPT !.op = "performance", !.timeframe = timeframe,
                                         !.span = span], 200, "")
                   EXCEPT !.result = <<PerformanceReport(timeframe, performance)>>,
                          !.read = <<Stored>>]]
           /\ complaints' = [c \in DOMAIN complaints |->
                IF c \in Matched(DateFilter(timeframe, span, now))
                   /\ complaints[c].status = "PENDING"
                  THEN [complaints[c] EXCEPT !.status = "IN_PROGRESS"]
                  ELSE complaints[c]]
  /\ started' = started + 1
  /\ UNCHANGED <<now, forwardingRecords, conc, removed>>

\* the whole handler, for a request whose timeframe is one of `timeframes`: it
\* awaits the aggregation and answers
PerformanceStartWith(r, timeframes) ==
  /\ CanStart(r)
  /\ \E timeframe \in timeframes :
       \E span \in Spans(timeframe) :
         \E performance \in PerformanceResults(DateFilter(timeframe, span, now)) :
           req' = [req EXCEPT ![r] =
             [Respond([IdleReq EXCEPT !.op = "performance", !.timeframe = timeframe,
                                      !.span = span], 200, "")
                EXCEPT !.result = <<PerformanceReport(timeframe, performance)>>,
                       !.read = <<Stored>>]]
  /\ started' = started + 1
  /\ UNCHANGED <<now, complaints, forwardingRecords, conc, removed>>

PerformanceStart(r) == PerformanceStartWith(r, Timeframes)

\* -------------------------------------------------------- deleteInstitution
\* Complaint.find({ assignedTo: id, status: { $in: ['PENDING', 'IN_PROGRESS'] } }).
\* The complaints submitComplaint stores name their institution in
\* institutionId and have no assignedTo: the condition on assignedTo either
\* stays in the filter and matches no complaint, or is dropped from it
\* (strictQuery) and leaves the condition on status alone
ActiveComplaints(id, strictQuery) ==
  {c \in 1..Len(complaints) :
     /\ complaints[c].status \in {"PENDING", "IN_PROGRESS"}
     /\ strictQuery}

\* the handler up to institution.remove()
DeleteStart(r) ==
  /\ CanStart(r)
  /\ \E id \in Institutions, strictQuery \in BOOLEAN :
       LET base == [IdleReq EXCEPT !.op = "delete", !.target = id]
       IN IF id \notin StoredInstitutions
            THEN req' = [req EXCEPT ![r] = Respond(base, 404, "Institution not found")]
          ELSE IF ActiveComplaints(id, strictQuery) # {}
            THEN req' = [req EXCEPT ![r] =
                   Respond(base, 400, "Cannot delete institution with active complaints. Please reassign or resolve all complaints first.")]
          ELSE req' = [req EXCEPT ![r] = [base EXCEPT !.pc = "remove"]]
  /\ started' = started + 1
  /\ UNCHANGED <<now, complaints, forwardingRecords, conc, removed>>

DeleteRemove(r) ==
  /\ req[r].op = "delete" /\ req[r].pc = "remove"
  /\ \E ok \in BOOLEAN :
       IF ok
         THEN /\ removed' = removed \cup {req[r].target}
              /\ req' = [req EXCEPT ![r] = Respond(req[r], 200, "Institution removed")]
         ELSE /\ req' = [req EXCEPT ![r] = Respond(req[r], 500, "Server Error")]
              /\ UNCHANGED removed
  /\ UNCHANGED <<now, complaints, forwardingRecords, conc, started>>

Next ==
  \/ Tick
  \/ \E r \in Reqs : Finish(r)
  \/ \E r \in Reqs : SubmitStart(r)
  \/ \E r \in Reqs : SubmitSave(r)
  \/ \E r \in Reqs : SubmitNotify(r)
  \/ \E r \in Reqs : DeadlineStart(r)
  \/ \E r \in Reqs : DeadlineSave(r)
  \/ \E r \in Reqs : StatusStart(r)
  \/ \E r \in Reqs : StatusNotifyResolved(r)
  \/ \E r \in Reqs : StatusNotifyDeadline(r)
  \/ \E r \in Reqs : StatusSave(r)
  \/ \E r \in Reqs : ForwardStart(r)
  \/ \E r \in Reqs : ForwardSaveRecord(r)
  \/ \E r \in Reqs : ForwardSaveComplaint(r)
  \/ \E r \in Reqs : ForwardNotify(r)
  \/ \E r \in Reqs : HistoryStart(r)

Spec == Init /\ [][Next]_vars

\* intake alone, over every category
NextIntake ==
  \/ Tick
  \/ \E r \in Reqs : Finish(r)
  \/ \E r \in Reqs : SubmitAnyCategory(r)
  \/ \E r \in Reqs : SubmitSave(r)
  \/ \E r \in Reqs : SubmitNotify(r)

SpecIntake == Init /\ [][NextIntake]_vars

\* the stored state a submission leaves: a complaint that citizen z1 submitted
\* for (P1, D1) at time 0
FreshComplaint == NewComplaint("WATER", "P1", "D1", "z1", "i1", 0)

\* forwarding and its history, one request at a time, on a stored complaint
InitHistory ==
  /\ now = 0
  /\ removed = {}
  /\ complaints = <<FreshComplaint>>
  /\ forwardingRecords = << >>
  /\ req = [r \in Reqs |-> IdleReq]
  /\ conc = 1
  /\ started = 0

NextHistory ==
  \/ Tick
  \/ \E r \in Reqs : Finish(r)
  \/ \E r \in Reqs : ForwardStart(r)
  \/ \E r \in Reqs : ForwardSaveRecord(r)
  \/ \E r \in Reqs : ForwardSaveComplaint(r)
  \/ \E r \in Reqs : ForwardNotify(r)
  \/ \E r \in Reqs : HistoryStart(r)

SpecHistory == InitHistory /\ [][NextHistory]_vars

\* the fields of the loaded document that a request's handler assigns
AssignedFields(q) ==
  CASE q.op = "deadline" -> {"resolutionDeadline"}
    [] q.op = "status" ->
         {"status"}
           \cup (IF q.status = "RESOLVED" THEN {"resolutionDate"} ELSE {})
           \cup (IF IsSome(q.deadline) THEN {"resolutionDeadline"} ELSE {})
    [] q.op = "forward" -> {"assignedDepartment", "status"}
    [] OTHER -> {}

\* forwarding and its history with two requests in flight at once
InitRace ==
  /\ now = 0
  /\ removed = {}
  /\ complaints = <<FreshComplaint>>
  /\ forwardingRecords = << >>
  /\ req = [r \in Reqs |-> IdleReq]
  /\ conc = 2
  /\ started = 0

SpecRace == InitRace /\ [][NextHistory]_vars

\* intake and the removal of institutions, two requests in flight at once
InitAdmin ==
  /\ now = 0
  /\ removed = {}
  /\ complaints = << >>
  /\ forwardingRecords = << >>
  /\ req = [r \in Reqs |-> IdleReq]
  /\ conc = 2
  /\ started = 0

NextAdmin ==
  \/ \E r \in Reqs : Finish(r)
  \/ \E r \in Reqs : SubmitStart(r)
  \/ \E r \in Reqs : SubmitSave(r)
  \/ \E r \in Reqs : SubmitNotify(r)
  \/ \E r \in Reqs : DeleteStart(r)
  \/ \E r \in Reqs : DeleteRemove(r)

SpecAdmin == InitAdmin /\ [][NextAdmin]_vars

\* requests that overlap: up to MaxOverlap requests of the owning institution
\* and report runs against one stored complaint, two of them in flight at once,
\* the clock standing still
InitConcurrent ==
  /\ now = 0
  /\ removed = {}
  /\ complaints = <<FreshComplaint>>
  /\ forwardingRecords = << >>
  /\ req = [r \in Reqs |-> IdleReq]
  /\ conc = 2
  /\ started = 0

Owners == {"i1"}

NextConcurrent ==
  \/ \E r \in Reqs : Finish(r)
  \/ \E r \in Reqs : started < MaxOverlap /\ DeadlineStartBy(r, Owners)
  \/ \E r \in Reqs : DeadlineSave(r)
  \/ \E r \in Reqs : started < MaxOverlap /\ StatusStartBy(r, Owners)
  \/ \E r \in Reqs : StatusNotifyResolved(r)
  \/ \E r \in Reqs : StatusNotifyDeadline(r)
  \/ \E r \in Reqs : StatusSave(r)
  \/ \E r \in Reqs : started < MaxOverlap /\ ForwardStartBy(r, Owners)
  \/ \E r \in Reqs : ForwardSaveRecord(r)
  \/ \E r \in Reqs : ForwardSaveComplaint(r)
  \/ \E r \in Reqs : ForwardNotify(r)
  \/ \E r \in Reqs : started < MaxOverlap /\ PerformanceStartWith(r, {"week", "none"})

SpecConcurrent == InitConcurrent /\ [][NextConcurrent]_vars

\* the run time of the reports, late enough for complaints a year old
ReportNow == 400

\* how long before the run the reported complaints were submitted, in days
ReportAges == {7, 8, 31, 366}

\* a complaint submitted `age` days before the run and assigned to i: as intake
\* stored it, or resolved since, at its deadline or a day after it
ReportDocs(age, i) ==
  LET at == ReportNow - age * Day
      fresh == NewComplaint("WATER", "P1", IF i = "i1" THEN "D1" ELSE "D3", "z1", i, at)
  IN {fresh,
      ApplyStatus(fresh, "RESOLVED", None, fresh.resolutionDeadline),
      ApplyStatus(fresh, "RESOLVED", None, fresh.resolutionDeadline + Day)}

\* the collections of up to MaxReported such complaints, in the order of their
\* submission
ReportCollections ==
  LET docs == UNION {ReportDocs(age, i) : age \in ReportAges, i \in Institutions}
  IN {cs \in UNION {[1..n -> docs] : n \in 0..MaxReported} :
        \A j, k \in DOMAIN cs : j < k => cs[j].submissionDate <= cs[k].submissionDate}

\* reports over a stored history, with institution i2 stored or removed
InitReport ==
  /\ now = ReportNow
  /\ removed \in {{}, {"i2"}}
  /\ complaints \in ReportCollections
  /\ forwardingRecords = << >>
  /\ req = [r \in Reqs |-> IdleReq]
  /\ conc = 1
  /\ started = 0

NextReport ==
  \/ \E r \in Reqs : Finish(r)
  \/ \E r \in Reqs : PerformanceStart(r)

SpecReport == InitReport /\ [][NextReport]_vars

\* ================================================================== claims
ComplaintIds == 1..Len(complaints)

\* C1: a complaint has a resolution timestamp if and only if its status is
\* RESOLVED, in every reachable state.
C1_ResolutionDateIffResolved ==
  \A c \in ComplaintIds :
    IsSome(complaints[c].resolutionDate) <=> complaints[c].status = "RESOLVED"

\* C2: the resolution timestamp is stamped once: no step changes a resolution
\* timestamp that is already present, in particular not a second RESOLVED update.
C2_ResolutionDateStampedOnce ==
  [][\A c \in ComplaintIds :
       IsSome(complaints[c].resolutionDate)
         => complaints'[c].resolutionDate = complaints[c].resolutionDate]_vars

\* C3: a status or deadline update of an existing complaint by anyone but its
\* assigned institution ends in an error response and no step of that request
\* changes any complaint.
C3_OnlyOwnerMutates ==
  [][\A r \in Reqs :
       (/\ req'[r] # req[r]
        /\ req'[r].op \in {"status", "deadline"}
        /\ req'[r].cid \in ComplaintIds
        /\ complaints[req'[r].cid].institutionId # req'[r].actor)
       => /\ complaints' = complaints
          /\ req'[r].pc = "respond"
          /\ req'[r].code \in {400, 403, 404}]_vars

C3_Witness ==
  \E r \in Reqs :
    /\ req[r].op = "status" /\ req[r].pc = "respond"
    /\ req[r].cid \in ComplaintIds
    /\ req[r].actor \in Institutions
    /\ complaints[req[r].cid].institutionId # req[r].actor
    /\ req[r].code = 403

\* C4: every write of a complaint's resolutionDeadline (at creation or by an
\* update) writes a value that is not before the clock at the write.
C4_DeadlineNeverPastWhenWritten ==
  [][\A c \in 1..Len(complaints') :
       (\/ c > Len(complaints)
        \/ complaints'[c].resolutionDeadline # complaints[c].resolutionDeadline)
       => complaints'[c].resolutionDeadline >= now]_vars

\* C5: updateComplaintDeadline by the owning institution with a timestamp d is
\* rejected with the validation error when d <= now and goes on to the save of
\* d when d > now.
C5_DeadlineRejectedUnlessFuture ==
  [][\A r \in Reqs :
       (/\ req[r].pc = "idle"
        /\ req'[r].op = "deadline"
        /\ IsSome(req'[r].deadline)
        /\ FindOwned(req'[r].cid, req'[r].actor))
       => IF Val(req'[r].deadline) <= now
            THEN req'[r].pc = "respond" /\ req'[r].code = 400
            ELSE /\ req'[r].pc = "save"
                 /\ req'[r].doc.resolutionDeadline = Val(req'[r].deadline)]_vars

\* C6: forwardComplaint answers with the error of the first failing check, in
\* the order ownership, department exists, same district, each error distinct;
\* a request that ends in one of these errors has created no record and none of
\* its steps changes a complaint or the records.
C6_ForwardChecksInOrder ==
  [][\A r \in Reqs :
       LET q == req'[r] IN
       (/\ req[r].pc = "idle"
        /\ q.op = "forward"
        /\ q.msg # "validation")
       => IF ~(q.cid \in ComplaintIds /\ complaints[q.cid].institutionId = q.actor)
            THEN /\ q.pc = "respond" /\ q.code = 404
                 /\ q.msg = "Complaint not found or you do not have permission to forward it"
                 /\ q.recId = 0
                 /\ UNCHANGED <<complaints, forwardingRecords>>
          ELSE IF q.dept \notin Departments
            THEN /\ q.pc = "respond" /\ q.code = 404
                 /\ q.msg = "District department not found"
                 /\ q.recId = 0
                 /\ UNCHANGED <<complaints, forwardingRecords>>
          ELSE IF DepartmentDistrict(q.dept) # complaints[q.cid].district
            THEN /\ q.pc = "respond" /\ q.code = 400
                 /\ q.msg = "Department must be in the same district as the complaint"
                 /\ q.recId = 0
                 /\ UNCHANGED <<complaints, forwardingRecords>>
          ELSE q.pc = "saveRecord"]_vars

C6_Witness ==
  \E r \in Reqs :
    /\ req[r].op = "forward" /\ req[r].pc = "respond"
    /\ FindOwned(req[r].cid, req[r].actor)
    /\ req[r].dept \in Departments
    /\ DepartmentDistrict(req[r].dept) # complaints[req[r].cid].district
    /\ req[r].code = 400
    /\ forwardingRecords = << >>

\* C7: when forwardComplaint answers with success, whatever the complaint's
\* status was, exactly one ForwardingRecord has been added for the complaint,
\* the complaint's assignedDepartment is the target department and its status
\* is IN_PROGRESS.
C7_ForwardSuccessEffect ==
  \A r \in Reqs :
    (req[r].op = "forward" /\ req[r].pc = "respond" /\ req[r].code = 200)
    => /\ Len(forwardingRecords) = req[r].recBase + 1
       /\ forwardingRecords[req[r].recId].complaintId = req[r].cid
       /\ forwardingRecords[req[r].recId].toDepartmentId = req[r].dept
       /\ complaints[req[r].cid].assignedDepartment = req[r].dept
       /\ complaints[req[r].cid].status = "IN_PROGRESS"

C7_Witness ==
  \E r \in Reqs :
    /\ req[r].op = "forward" /\ req[r].pc = "respond" /\ req[r].code = 200
    /\ req[r].orig.status = "RESOLVED"

\* C8: RESOLVED is terminal: no step moves a complaint out of RESOLVED.
C8_ResolvedIsTerminal ==
  [][\A c \in ComplaintIds :
       complaints[c].status = "RESOLVED" => complaints'[c].status = "RESOLVED"]_vars

\* C9: forwarding is all-or-nothing: when forwardComplaint ends in a failure,
\* no ForwardingRecord of that attempt is stored.
C9_ForwardAllOrNothing ==
  \A r \in Reqs :
    (req[r].op = "forward" /\ req[r].pc = "respond" /\ req[r].code = 500)
    => req[r].recId \notin DOMAIN forwardingRecords

\* C10: a request has attempted a notification only if the save of the change
\* it announces has already succeeded.
C10_NotifyOnlyAfterSave ==
  \A r \in Reqs : req[r].notified # {} => req[r].saved

\* C11: a throw of sendNotification changes no stored complaint or record and
\* never makes the response an error: the handler goes on to its next step, and
\* a request whose change is saved answers with success whatever its
\* notifications did.
C11_NotificationFailureNonFatal ==
  [][\A r \in Reqs :
       /\ (req'[r].notifErrors # req[r].notifErrors /\ req'[r].op # "none")
            => /\ UNCHANGED <<complaints, forwardingRecords>>
               /\ req'[r].code \notin {400, 403, 404, 500}
               /\ IF req[r].saved
                    THEN req'[r].pc = "respond" /\ req'[r].code \in {200, 201}
                    ELSE req'[r].op = "status" /\ req'[r].pc \in {"notifyDeadline", "save"}
       /\ (req'[r].pc = "respond" /\ req'[r].saved) => req'[r].code \in {200, 201}]_vars

C11_Witness ==
  \E r \in Reqs :
    /\ req[r].op = "forward" /\ req[r].pc = "respond"
    /\ req[r].notifErrors = {"COMPLAINT_FORWARDED"}
    /\ req[r].code = 200
    /\ req[r].recId \in DOMAIN forwardingRecords
    /\ complaints[req[r].cid].assignedDepartment = req[r].dept

\* C12: the notification flag of a success response is true if and only if
\* every notification the request attempted succeeded.
C12_FlagIffAllNotificationsSent ==
  \A r \in Reqs :
    (/\ req[r].pc = "respond"
     /\ req[r].op \in {"submit", "status", "forward"}
     /\ req[r].code \in {200, 201})
    => (req[r].sentFlag <=> req[r].notifErrors = {})

\* C13: every successful deadline update, through updateComplaintDeadline or
\* through the optional deadline of updateComplaintStatus, has attempted a
\* DEADLINE_SET notification.
C13_DeadlineUpdateNotifies ==
  \A r \in Reqs :
    (/\ req[r].pc = "respond" /\ req[r].code = 200
     /\ req[r].op \in {"deadline", "status"}
     /\ IsSome(req[r].deadline))
    => "DEADLINE_SET" \in req[r].notified

\* C14: a complaint's assignedDepartment is its assigned institution or a
\* district department of the complaint's district.
C14_AssignedDepartmentInDistrict ==
  \A c \in ComplaintIds :
    \/ complaints[c].assignedDepartment = complaints[c].institutionId
    \/ /\ complaints[c].assignedDepartment \in Departments
       /\ DepartmentDistrict(complaints[c].assignedDepartment) = complaints[c].district

C14_Witness ==
  \E c \in ComplaintIds :
    /\ complaints[c].assignedDepartment \in Departments
    /\ \E i \in DOMAIN forwardingRecords : forwardingRecords[i].complaintId = c

\* C15: ForwardingRecords are append-only: every step keeps each stored record,
\* with all its fields, at its place, and the collection never shrinks.
C15_RecordsAppendOnly ==
  [][/\ Len(forwardingRecords') >= Len(forwardingRecords)
     /\ \A i \in DOMAIN forwardingRecords :
          forwardingRecords'[i] = forwardingRecords[i]]_vars

C15_Witness ==
  /\ Len(forwardingRecords) = 2
  /\ forwardingRecords[1].complaintId = forwardingRecords[2].complaintId

\* the offsets of the deadline policy, in days
PolicyDays(category) ==
  IF category \in {"WATER", "ELECTRICITY"} THEN 3
  ELSE IF category = "PUBLIC_SAFETY" THEN 2
  ELSE IF category \in {"ROADS", "SANITATION"} THEN 7
  ELSE 14

\* C16: a submission by a citizen for (P, D) goes on to save a complaint
\* assigned to an institution of exactly (P, D) when there is one, otherwise to
\* an institution of province P, and when P has none it answers with the
\* domain error and creates nothing; every stored complaint has an institution.
C16_AssignmentAtIntake ==
  [][/\ \A r \in Reqs :
          (req[r].pc = "idle" /\ req'[r].op = "submit" /\ req'[r].place # << >>)
          => LET P == req'[r].place[1]
                 D == req'[r].place[2]
                 local == {i \in Institutions : Province(i) = P /\ District(i) = D}
                 provincial == {i \in Institutions : Province(i) = P}
             IN IF local # {}
                  THEN req'[r].pc = "save" /\ req'[r].doc.institutionId \in local
                ELSE IF provincial # {}
                  THEN req'[r].pc = "save" /\ req'[r].doc.institutionId \in provincial
                ELSE /\ req'[r].pc = "respond" /\ req'[r].code = 404
                     /\ req'[r].msg = "No appropriate institution found to handle this complaint"
     /\ \A r \in Reqs :
          (req'[r].op = "submit" /\ req'[r].code = 404) => complaints' = complaints
     /\ \A c \in 1..Len(complaints') : complaints'[c].institutionId \in Institutions]_vars

C16_Witness ==
  \E c \in ComplaintIds :
    /\ complaints[c].district = "D3"
    /\ complaints[c].province = Province(complaints[c].institutionId)
    /\ complaints[c].district # District(complaints[c].institutionId)

\* C17: for every category, recognized or not, the deadline computed at intake
\* is the current instant plus 3, 2, 7 or 14 whole days as the policy fixes for
\* the category, and the computation has no error outcome: the request goes on
\* to its save.
C17_DeadlineByCategory ==
  [][\A r \in Reqs :
       (/\ req[r].pc = "idle" /\ req'[r].op = "submit"
        /\ req'[r].place # << >>
        /\ \E i \in Institutions : Province(i) = req'[r].place[1])
       => /\ req'[r].pc = "save"
          /\ req'[r].doc.resolutionDeadline
               = now + PolicyDays(req'[r].doc.category) * Day]_vars

C17_Witness ==
  \E r \in Reqs :
    /\ req[r].op = "submit" /\ req[r].pc = "save"
    /\ req[r].doc.category = "LAND"
    /\ req[r].doc.resolutionDeadline = now + 14 * Day

\* C18: the complaint a successful submission stores has status PENDING, no
\* resolution timestamp, a deadline of its submission time plus the category's
\* offset, its assigned institution as assignedDepartment and the submitting
\* citizen as owner.
C18_InitialComplaint ==
  [][Len(complaints') = Len(complaints) + 1
       => LET c == complaints'[Len(complaints')] IN
          /\ c.status = "PENDING"
          /\ c.resolutionDate = None
          /\ c.submissionDate <= now
          /\ c.resolutionDeadline = c.submissionDate + PolicyDays(c.category) * Day
          /\ c.institutionId \in Institutions
          /\ c.assignedDepartment = c.institutionId
          /\ \E r \in Reqs :
               /\ req[r].op = "submit" /\ req[r].pc = "save" /\ req'[r].pc = "notify"
               /\ c.citizenId = req[r].actor
               /\ Role(req[r].actor) = "citizen"]_vars

C18_Witness ==
  \E r \in Reqs :
    /\ req[r].op = "submit" /\ req[r].pc = "respond" /\ req[r].code = 201
    /\ req[r].cid \in ComplaintIds
    /\ complaints[req[r].cid].category = "PUBLIC_SAFETY"
    /\ complaints[req[r].cid].status = "PENDING"

\* what a response shows of a request
ResponseOf(q) == [code |-> q.code, msg |-> q.msg, result |-> q.result, sentFlag |-> q.sentFlag]

\* C19: forwardComplaint gives an actor who does not own an existing complaint
\* exactly the response it gives for a complaint that does not exist.
C19_ForwardHidesExistence ==
  \A r \in Reqs :
    (req[r].op = "forward" /\ req[r].pc = "respond" /\ req[r].msg # "validation")
    => LET unknown == [code |-> 404, result |-> << >>, sentFlag |-> TRUE,
                       msg |-> "Complaint not found or you do not have permission to forward it"]
       IN /\ ~Exists(req[r].cid) => ResponseOf(req[r]) = unknown
          /\ (Exists(req[r].cid) /\ complaints[req[r].cid].institutionId # req[r].actor)
               => ResponseOf(req[r]) = unknown

C19_Witness ==
  \E r \in Reqs :
    /\ req[r].op = "forward" /\ req[r].pc = "respond"
    /\ Exists(req[r].cid)
    /\ req[r].actor \in Institutions
    /\ complaints[req[r].cid].institutionId # req[r].actor
    /\ req[r].code = 404

\* the response of each handler to a complaint id that does not exist
UnknownComplaintResponse(op) ==
  [code |-> 404, result |-> << >>, sentFlag |-> TRUE,
   msg |-> CASE op = "status" -> "Complaint not found"
             [] op = "deadline" -> "Complaint not found or you do not have permission to update it"
             [] op = "history" -> "Complaint not found or you do not have permission to view it"]

\* C20: updateComplaintStatus, updateComplaintDeadline (with a valid deadline)
\* and getForwardingHistory give an institution that does not own an existing
\* complaint the response they give for a complaint that does not exist.
C20_HandlersHideExistence ==
  \A r \in Reqs :
    (/\ req[r].op \in {"status", "deadline", "history"}
     /\ req[r].pc = "respond"
     /\ req[r].actor \in Institutions
     /\ req[r].code # 400)
    => /\ ~Exists(req[r].cid) => ResponseOf(req[r]) = UnknownComplaintResponse(req[r].op)
       /\ (Exists(req[r].cid) /\ complaints[req[r].cid].institutionId # req[r].actor)
            => ResponseOf(req[r]) = UnknownComplaintResponse(req[r].op)

\* C21: getForwardingHistory answers the complaint's assigned institution and
\* its owning citizen with all the forwarding records of the complaint and no
\* others, newest first, and answers every other actor with the 404 error and
\* no record.
C21_HistoryNewestFirst ==
  \A r \in Reqs :
    (req[r].op = "history" /\ req[r].pc = "respond")
    => LET q == req[r]
           mine == {i \in DOMAIN forwardingRecords :
                      forwardingRecords[i].complaintId = q.cid}
       IN IF /\ Exists(q.cid)
             /\ q.actor \in {complaints[q.cid].institutionId, complaints[q.cid].citizenId}
            THEN /\ q.code = 200
                 /\ Len(q.result) = Cardinality(mine)
                 /\ \A i \in mine : \E j \in DOMAIN q.result : q.result[j] = forwardingRecords[i]
                 /\ \A j \in DOMAIN q.result : q.result[j].complaintId = q.cid
                 /\ \A j, k \in DOMAIN q.result :
                      j < k => q.result[j].forwardedAt >= q.result[k].forwardedAt
            ELSE /\ q.code = 404
                 /\ q.result = << >>

C21_Witness ==
  \E r \in Reqs :
    /\ req[r].op = "history" /\ req[r].pc = "respond"
    /\ req[r].actor = "z1"
    /\ Len(req[r].result) = 2
    /\ req[r].result[1].forwardedAt > req[r].result[2].forwardedAt

\* the performance array of a report response
ReportEntries(q) == q.result[1].institutionPerformance

\* the window of a report: submitted at or after the run time minus the span of
\* the timeframe, everything when no timeframe is given
InWindow(q, c) ==
  q.timeframe = "none" \/ complaints[c].submissionDate >= now - q.span * Day

WindowOf(q, i) == {c \in ComplaintIds : complaints[c].institutionId = i /\ InWindow(q, c)}

\* a counter summed over the entries of a report
EntriesTotal(entries, field) ==
  Cardinality({jn \in (DOMAIN entries) \X ComplaintIds : jn[2] <= entries[jn[1]][field]})

\* C22: the report answers with success and has an entry for every stored
\* institution; an institution without complaints in the window is reported
\* with resolutionRate 0 and onTimeResolutionRate 0.
C22_EveryInstitutionReported ==
  \A r \in Reqs :
    (req[r].op = "performance" /\ req[r].pc = "respond")
    => /\ req[r].code = 200
       /\ \A i \in StoredInstitutions :
            \E j \in DOMAIN ReportEntries(req[r]) :
              LET e == ReportEntries(req[r])[j]
              IN /\ e.institution = i
                 /\ WindowOf(req[r], i) = {}
                      => e.resolutionRate.num = 0 /\ e.onTimeResolutionRate.num = 0

\* C23: in every entry of the report, totalComplaints, resolvedComplaints and
\* resolvedOnTime count the institution's complaints in the window, those of
\* them that are RESOLVED, and those resolved at or before their deadline;
\* resolutionRate is resolved / total x 100 and onTimeResolutionRate is
\* resolvedOnTime / max(resolved, 1) x 100, 0 when nothing is resolved.
C23_EntryCountsAndRates ==
  \A r \in Reqs :
    (req[r].op = "performance" /\ req[r].pc = "respond")
    => \A j \in DOMAIN ReportEntries(req[r]) :
         LET e == ReportEntries(req[r])[j]
             window == WindowOf(req[r], e.institution)
             resolved == {c \in window : complaints[c].status = "RESOLVED"}
             onTime == {c \in resolved :
                          /\ IsSome(complaints[c].resolutionDate)
                          /\ Val(complaints[c].resolutionDate) <= complaints[c].resolutionDeadline}
         IN /\ e.totalComplaints = Cardinality(window)
            /\ e.resolvedComplaints = Cardinality(resolved)
            /\ e.resolvedOnTime = Cardinality(onTime)
            /\ e.resolutionRate.den # 0
            /\ e.resolutionRate.num * Cardinality(window) = 100 * Cardinality(resolved) * e.resolutionRate.den
            /\ e.onTimeResolutionRate.den # 0
            /\ IF resolved = {}
                 THEN e.onTimeResolutionRate.num = 0
                 ELSE e.onTimeResolutionRate.num * Cardinality(resolved)
                        = 100 * Cardinality(onTime) * e.onTimeResolutionRate.den

C23_Witness ==
  \E r \in Reqs :
    /\ req[r].op = "performance" /\ req[r].pc = "respond"
    /\ \E j \in DOMAIN ReportEntries(req[r]) :
         /\ ReportEntries(req[r])[j].resolvedComplaints = 2
         /\ ReportEntries(req[r])[j].resolvedOnTime = 1
         /\ \E c \in ComplaintIds :
              /\ complaints[c].status = "RESOLVED"
              /\ complaints[c].resolutionDate = Some(complaints[c].resolutionDeadline)

\* C24: the system-wide totals of the report are the sums of totalComplaints,
\* resolvedComplaints and resolvedOnTime over its entries; systemResolutionRate
\* is 0 when the total is 0 and resolved / total x 100 otherwise, and
\* systemOnTimeRate is 0 when nothing is resolved and resolvedOnTime /
\* resolved x 100 otherwise.
C24_SystemTotals ==
  \A r \in Reqs :
    (req[r].op = "performance" /\ req[r].pc = "respond")
    => LET stats == req[r].result[1].systemStats
           entries == ReportEntries(req[r])
       IN /\ stats.totalComplaints = EntriesTotal(entries, "totalComplaints")
          /\ stats.totalResolved = EntriesTotal(entries, "resolvedComplaints")
          /\ stats.totalResolvedOnTime = EntriesTotal(entries, "resolvedOnTime")
          /\ stats.systemResolutionRate.den # 0
          /\ stats.systemOnTimeRate.den # 0
          /\ IF stats.totalComplaints = 0
               THEN stats.systemResolutionRate.num = 0
               ELSE stats.systemResolutionRate.num * stats.totalComplaints
                      = 100 * stats.totalResolved * stats.systemResolutionRate.den
          /\ IF stats.totalResolved = 0
               THEN stats.systemOnTimeRate.num = 0
               ELSE stats.systemOnTimeRate.num * stats.totalResolved
                      = 100 * stats.totalResolvedOnTime * stats.systemOnTimeRate.den

C24_Witness ==
  \E r \in Reqs :
    /\ req[r].op = "performance" /\ req[r].pc = "respond"
    /\ Len(ReportEntries(req[r])) = 2
    /\ req[r].result[1].systemStats.totalComplaints = 2
    /\ req[r].result[1].systemStats.totalResolved = 1
    /\ req[r].result[1].systemStats.totalResolvedOnTime = 1

\* C25: the report counts, for every stored institution, exactly its
\* complaints submitted at or after the run time minus 7 days, one month or one
\* year, and all its complaints when no timeframe is given.
C25_WindowIsLowerBound ==
  \A r \in Reqs :
    (req[r].op = "performance" /\ req[r].pc = "respond")
    => \A i \in StoredInstitutions :
         LET mine == {j \in DOMAIN ReportEntries(req[r]) :
                        ReportEntries(req[r])[j].institution = i}
         IN IF WindowOf(req[r], i) = {}
              THEN \A j \in mine : ReportEntries(req[r])[j].totalComplaints = 0
              ELSE \E j \in mine :
                     ReportEntries(req[r])[j].totalComplaints = Cardinality(WindowOf(req[r], i))

C27_LastWriterWins ==
  [][\A r, q \in Reqs :
       (/\ r # q
        /\ req[r].op \in {"status", "deadline", "forward"}
        /\ req[r].pc \in {"save", "saveComplaint"}
        /\ req'[r].saved
        /\ req[q].op \in {"status", "deadline", "forward"}
        /\ req[q].saved
        /\ req[q].cid = req[r].cid)
       => \A f \in AssignedFields(req[r]) \cap AssignedFields(req[q]) :
            complaints'[req[r].cid][f] = req[r].doc[f]]_vars

\* C28: no step changes the owning citizen, assigned institution, submission
\* timestamp, category, province or district of a stored complaint.
C28_IntakeFieldsFixed ==
  [][\A c \in ComplaintIds :
       /\ c \in 1..Len(complaints')
       /\ \A f \in {"citizenId", "institutionId", "submissionDate", "category",
                     "province", "district"} :
            complaints'[c][f] = complaints[c][f]]_vars

C28_Witness ==
  \E c \in ComplaintIds :
    /\ complaints[c].assignedDepartment \in Departments
    /\ complaints[c].resolutionDeadline
         # calculateResolutionDeadline(complaints[c].category, complaints[c].submissionDate)
    /\ complaints[c].citizenId \in Citizens
    /\ complaints[c].institutionId \in Institutions

\* C29: when a forward has answered with success, its ForwardingRecord is the
\* newest of the complaint and no other forward of the complaint is between
\* its two saves, the complaint's assignedDepartment is the destination
\* department of that record.
C29_AssignedDepartmentIsNewest ==
  \A r \in Reqs :
    (/\ req[r].op = "forward" /\ req[r].pc = "respond" /\ req[r].code = 200
     /\ \A k \in DOMAIN forwardingRecords :
          (k # req[r].recId /\ forwardingRecords[k].complaintId = req[r].cid)
          => forwardingRecords[req[r].recId].forwardedAt > forwardingRecords[k].forwardedAt
     /\ \A q \in Reqs :
          ~(req[q].op = "forward" /\ req[q].cid = req[r].cid /\ req[q].pc = "saveComplaint"))
    => complaints[req[r].cid].assignedDepartment
         = forwardingRecords[req[r].recId].toDepartmentId

\* C30: deleteInstitution refuses to remove an institution that is the
\* assigned institution of a PENDING or IN_PROGRESS complaint, and no such
\* complaint ever refers to a removed institution.
C30_NoActiveComplaintOfRemoved ==
  \A c \in ComplaintIds :
    complaints[c].status \in {"PENDING", "IN_PROGRESS"}
      => complaints[c].institutionId \in StoredInstitutions

\* C31: in every entry of the performance report 0 <= resolvedOnTime <=
\* resolvedComplaints <= totalComplaints and totalComplaints >= 1; the divisors
\* of resolutionRate and onTimeResolutionRate are never zero, and both rates
\* lie between 0 and 100.
C31_EntryCountsOrdered ==
  \A r \in Reqs :
    (req[r].op = "performance" /\ req[r].pc = "respond")
    => \A j \in DOMAIN ReportEntries(req[r]) :
         LET e == ReportEntries(req[r])[j]
         IN /\ 0 <= e.resolvedOnTime
            /\ e.resolvedOnTime <= e.resolvedComplaints
            /\ e.resolvedComplaints <= e.totalComplaints
            /\ e.totalComplaints >= 1
            /\ e.resolutionRate.den > 0
            /\ 0 <= e.resolutionRate.num
            /\ e.resolutionRate.num <= 100 * e.resolutionRate.den
            /\ e.onTimeResolutionRate.den > 0
            /\ 0 <= e.onTimeResolutionRate.num
            /\ e.onTimeResolutionRate.num <= 100 * e.onTimeResolutionRate.den

C31_Witness ==
  \E r \in Reqs :
    /\ req[r].op = "performance" /\ req[r].pc = "respond"
    /\ \E j, k \in DOMAIN ReportEntries(req[r]) :
         /\ ReportEntries(req[r])[j].resolvedOnTime = 1
         /\ ReportEntries(req[r])[j].totalComplaints = 1
         /\ ReportEntries(req[r])[k].resolvedComplaints = 0
         /\ ReportEntries(req[r])[k].totalComplaints = 1

\* the requests the handlers are to refuse: a submission by a non-citizen or for
\* a place that has no institution, a status update by a non-institution, a
\* deadline update whose deadline is missing or before the time t of the request
RefusedInput(q, t) ==
  \/ q.op = "submit" /\ Role(q.actor) # "citizen"
  \/ /\ q.op = "submit"
     /\ q.place # << >>
     /\ \A category \in AllCategories :
          findAppropriateInstitution(category, q.place[1], q.place[2]) = {}
  \/ q.op = "status" /\ Role(q.actor) # "institution"
  \/ q.op = "deadline" /\ (q.deadline = None \/ Val(q.deadline) < t)

\* C32: a refused request changes nothing. A submission by a non-citizen or
\* without an institution for its place, a status update by a non-institution
\* and a deadline update with a missing or past deadline are answered with an
\* error in the step that takes them up; that step and the sending of the
\* answer leave the complaints and the forwarding records as they are, and the
\* request has saved nothing and sent no notification.
C32_RefusedChangesNothing ==
  [][\A r \in Reqs :
       /\ (req[r].pc = "idle" /\ req'[r].pc # "idle" /\ RefusedInput(req'[r], now))
          => /\ req'[r].pc = "respond"
             /\ req'[r].code \in {400, 403, 404}
             /\ ~req'[r].saved
             /\ req'[r].notified = {}
             /\ complaints' = complaints
             /\ forwardingRecords' = forwardingRecords
       /\ (req[r].pc = "respond" /\ req'[r] # req[r])
          => /\ req'[r] = IdleReq
             /\ complaints' = complaints
             /\ forwardingRecords' = forwardingRecords]_vars

C32_Witness ==
  \E r \in Reqs :
    /\ req[r].op = "deadline" /\ req[r].pc = "respond" /\ req[r].code = 400
    /\ FindOwned(req[r].cid, req[r].actor)
    /\ IsSome(req[r].deadline)
    /\ Val(req[r].deadline) < now
    /\ ~req[r].saved
====
